---- MODULE Spec2Model ----
(***************************************************************************)
(* Grounding-verification pipeline of GeminiService (src/agent.py):        *)
(* metadata extraction, hallucination detection, confidence scoring,       *)
(* staleness detection and the logging of the trace.                       *)
(*                                                                         *)
(* Strings are tuples of one-character strings, so that the regular        *)
(* expressions of the source are evaluated character by character.         *)
(* Floating-point scores are integers in units of 1/10000 before rounding  *)
(* and in hundredths after round(score, 2).                                *)
(* Datetimes are integers: proleptic Gregorian ordinal * TicksPerDay plus  *)
(* the time of day in ticks.                                               *)
(***************************************************************************)
EXTENDS Integers, Sequences, FiniteSets, TLC

VARIABLES
    pc,                 \* position of the request in get_grounded_response
    response,           \* the object returned by generate_content
    now,                \* datetime.now() of the request, [ord, tod]
    sources,            \* for each grounding chunk, the date its text was written from
    grounding_metadata, \* local of get_grounded_response
    is_hallucinated,    \* local of get_grounded_response
    is_stale,           \* local of get_grounded_response
    confidence_score,   \* local of get_grounded_response, in hundredths
    raised,             \* an exception escaped the function under execution
    diag,               \* lines printed to the diagnostic channel
    logOutcome,         \* what the log endpoint does with the POST
    waited,             \* ticks the coroutine has been suspended in _log_trace
    traces,             \* rows of AgentTrace recorded by /log-trace
    result              \* what get_grounded_response returned

vars == <<pc, response, now, sources, grounding_metadata, is_hallucinated,
          is_stale, confidence_score, raised, diag, logOutcome, waited,
          traces, result>>

(***************************************************************************)
(* Characters and strings                                                  *)
(***************************************************************************)
Digits == {"0", "1", "2", "3", "4", "5", "6", "7", "8", "9"}

IsDigit(c) == c \in Digits

DigitVal(c) ==
    CASE c = "0" -> 0 [] c = "1" -> 1 [] c = "2" -> 2 [] c = "3" -> 3
      [] c = "4" -> 4 [] c = "5" -> 5 [] c = "6" -> 6 [] c = "7" -> 7
      [] c = "8" -> 8 [] c = "9" -> 9

\* int(s) for a string of decimal digits
RECURSIVE IntOf(_)
IntOf(s) ==
    IF s = <<>> THEN 0
    ELSE 10 * IntOf(SubSeq(s, 1, Len(s) - 1)) + DigitVal(s[Len(s)])

\* first index >= k of t that holds no digit (Len(t) + 1 when there is none)
RECURSIVE DigitsEnd(_, _)
DigitsEnd(t, k) ==
    IF k > Len(t) \/ ~IsDigit(t[k]) THEN k ELSE DigitsEnd(t, k + 1)

SetMax(S) == CHOOSE m \in S : \A x \in S : x <= m

Repeat(c, n) == [i \in 1..n |-> c]

RECURSIVE Flatten(_)
Flatten(parts) ==
    IF parts = <<>> THEN <<>> ELSE Head(parts) \o Flatten(Tail(parts))

(***************************************************************************)
(* _detect_hallucination                                                   *)
(***************************************************************************)
LongResponseLen == 200
SubstantiveLen == 50

\* re.findall(r'\[(\d+)\]', text), as the set of the integers found
found_citations(text) ==
    { IntOf(SubSeq(text, i + 1, DigitsEnd(text, i + 1) - 1)) :
        i \in { k \in 1..Len(text) :
                  /\ text[k] = "["
                  /\ DigitsEnd(text, k + 1) > k + 1
                  /\ DigitsEnd(text, k + 1) <= Len(text)
                  /\ text[DigitsEnd(text, k + 1)] = "]" } }

\* "*" in response_text
HasAsterisk(text) == \E i \in 1..Len(text) : text[i] = "*"

\* re.search(r'\n\d+\.', response_text)
HasNumberedLine(text) ==
    \E i \in 1..Len(text) :
        /\ text[i] = "\n"
        /\ DigitsEnd(text, i + 1) > i + 1
        /\ DigitsEnd(text, i + 1) <= Len(text)
        /\ text[DigitsEnd(text, i + 1)] = "."

\* re.search(r'\n-', response_text)
HasDashLine(text) ==
    \E i \in 1..(Len(text) - 1) : text[i] = "\n" /\ text[i + 1] = "-"

has_list(text) == HasAsterisk(text) \/ HasNumberedLine(text) \/ HasDashLine(text)

\* the comparison of line 147 with >= for >
GhostCitation_Inclusive(text, source_count) ==
    /\ found_citations(text) # {}
    /\ SetMax(found_citations(text)) >= source_count

GhostCitation(text, source_count) ==
    /\ found_citations(text) # {}
    /\ SetMax(found_citations(text)) > source_count

\* line 170 without "and not has_grounding"
_detect_hallucination_ungated(resp, md) ==
    LET response_text == resp.text
        source_count  == Len(md.grounding_chunks)
        supports      == md.grounding_supports
    IN  IF GhostCitation(response_text, source_count) THEN TRUE
        ELSE IF source_count = 0 /\ has_list(response_text) THEN TRUE
        ELSE IF Len(response_text) > LongResponseLen /\ supports = <<>>
                /\ source_count = 0 THEN TRUE
        ELSE IF Len(response_text) > SubstantiveLen THEN TRUE
        ELSE FALSE

_detect_hallucination(resp, md) ==
    LET response_text == resp.text
        source_count  == Len(md.grounding_chunks)
        supports      == md.grounding_supports
    IN  IF GhostCitation(response_text, source_count) THEN TRUE
        ELSE IF source_count = 0 /\ has_list(response_text) THEN TRUE
        ELSE IF Len(response_text) > LongResponseLen /\ supports = <<>>
                /\ source_count = 0 THEN TRUE
        ELSE IF Len(response_text) > SubstantiveLen /\ ~(source_count > 0) THEN TRUE
        ELSE FALSE

(***************************************************************************)
(* _calculate_confidence_score                                             *)
(* Scores are exact multiples of 1/10000; the float arithmetic of the      *)
(* source differs from them by less than 1e-15, which round(score, 2)      *)
(* absorbs because no exact score lies on a rounding boundary.             *)
(***************************************************************************)
ScoreUnit == 100 * 100
HasChunksScore == 4000
HasSupportsScore == 4000
SourceCap == 5
SourceBonusWeight == 2000

Min(a, b) == IF a <= b THEN a ELSE b

\* round(x, 2) of x given in 1/10000, result in hundredths (ties to even)
Round2(units) ==
    LET q == units \div 100
        r == units % 100
    IN  IF r > 50 \/ (r = 50 /\ q % 2 = 1) THEN q + 1 ELSE q

\* line 199 without the min(.., 1.0)
source_bonus_uncapped(n) ==
    (((n * ScoreUnit) \div SourceCap) * SourceBonusWeight) \div ScoreUnit

\* min(len(chunks) / 5.0, 1.0) * 0.2
source_bonus(n) ==
    (Min((n * ScoreUnit) \div SourceCap, ScoreUnit) * SourceBonusWeight) \div ScoreUnit

_calculate_confidence_score(md) ==
    LET chunks   == md.grounding_chunks
        supports == md.grounding_supports
        s1 == IF Len(chunks) > 0 THEN HasChunksScore ELSE 0
        s2 == IF Len(supports) > 0 THEN HasSupportsScore ELSE 0
    IN  Round2(s1 + s2 + source_bonus(Len(chunks)))

(***************************************************************************)
(* Python values held in the metadata dictionary                           *)
(***************************************************************************)
PyNone == [k |-> "none", v |-> <<>>]
PyStr(s) == [k |-> "str", v |-> s]

\* chunk_data: {} when has_web is FALSE, else {"uri": .., "title": ..}
EmptyChunkData == [has_web |-> FALSE, uri |-> PyNone, title |-> PyNone]
ChunkData(uri, title) == [has_web |-> TRUE, uri |-> uri, title |-> title]

SupportData(seg, idx, conf) ==
    [segment_text |-> seg, grounding_chunk_indices |-> idx, confidence_scores |-> conf]

EmptyMetadata ==
    [search_queries |-> <<>>, grounding_chunks |-> <<>>, grounding_supports |-> <<>>]

(***************************************************************************)
(* Calendar arithmetic of datetime (proleptic Gregorian ordinals)          *)
(***************************************************************************)
TicksPerDay == 2
stale_threshold_days == 180

IsLeap(y) == (y % 4 = 0) /\ ((y % 100 # 0) \/ (y % 400 = 0))

DaysInMonth(y, m) ==
    IF m = 2 THEN (IF IsLeap(y) THEN 29 ELSE 28)
    ELSE IF m \in {4, 6, 9, 11} THEN 30 ELSE 31

RECURSIVE DaysBeforeMonth(_, _)
DaysBeforeMonth(y, m) ==
    IF m <= 1 THEN 0 ELSE DaysBeforeMonth(y, m - 1) + DaysInMonth(y, m - 1)

DaysBeforeYear(y) ==
    LET p == y - 1 IN p * 365 + (p \div 4) - (p \div 100) + (p \div 400)

Ordinal(y, m, d) == DaysBeforeYear(y) + DaysBeforeMonth(y, m) + d

ValidDate(y, m, d) ==
    /\ y >= 1 /\ y <= 9999
    /\ m >= 1 /\ m <= 12
    /\ d >= 1 /\ d <= DaysInMonth(y, m)

\* a datetime at midnight, and a datetime with a time of day, in ticks
Midnight(y, m, d) == Ordinal(y, m, d) * TicksPerDay
NowTicks(n) == Ordinal(n.y, n.m, n.d) * TicksPerDay + n.tod

\* optional datetime: None, or a point in time in ticks
NoDate == [found |-> FALSE, t |-> 0]
SomeDate(t) == [found |-> TRUE, t |-> t]

(***************************************************************************)
(* _extract_date_from_source                                               *)
(***************************************************************************)
UpperLetters == <<"A", "B", "C", "D", "E", "F", "G", "H", "I", "J", "K", "L", "M",
                  "N", "O", "P", "Q", "R", "S", "T", "U", "V", "W", "X", "Y", "Z">>
LowerLetters == <<"a", "b", "c", "d", "e", "f", "g", "h", "i", "j", "k", "l", "m",
                  "n", "o", "p", "q", "r", "s", "t", "u", "v", "w", "x", "y", "z">>

UpperSet == { UpperLetters[i] : i \in 1..26 }
LowerSet == { LowerLetters[i] : i \in 1..26 }

\* str.lower() on the letters A-Z, as re.IGNORECASE compares them
LowerTable == [c \in UpperSet |-> LowerLetters[CHOOSE i \in 1..26 : c = UpperLetters[i]]]

IsLetter(c) == c \in UpperSet \/ c \in LowerSet

Lower(c) == IF c \in UpperSet THEN LowerTable[c] ELSE c

LowerStr(s) == [i \in 1..Len(s) |-> Lower(s[i])]

MonthAbbr == << <<"j","a","n">>, <<"f","e","b">>, <<"m","a","r">>, <<"a","p","r">>,
                <<"m","a","y">>, <<"j","u","n">>, <<"j","u","l">>, <<"a","u","g">>,
                <<"s","e","p">>, <<"o","c","t">>, <<"n","o","v">>, <<"d","e","c">> >>

MonthFull == << <<"j","a","n","u","a","r","y">>, <<"f","e","b","r","u","a","r","y">>,
                <<"m","a","r","c","h">>, <<"a","p","r","i","l">>, <<"m","a","y">>,
                <<"j","u","n","e">>, <<"j","u","l","y">>, <<"a","u","g","u","s","t">>,
                <<"s","e","p","t","e","m","b","e","r">>, <<"o","c","t","o","b","e","r">>,
                <<"n","o","v","e","m","b","e","r">>, <<"d","e","c","e","m","b","e","r">> >>

MonthAbbrSet == { MonthAbbr[m] : m \in 1..12 }

SeptAlias == <<"s","e","p","t">>

IsSep(c) == c = "/" \/ c = "-"

DigitsAt(t, i, n) == i >= 1 /\ i + n - 1 <= Len(t) /\ \A k \in i..(i + n - 1) : IsDigit(t[k])

CharAt(t, i, c) == i >= 1 /\ i <= Len(t) /\ t[i] = c

SepAt(t, i) == i >= 1 /\ i <= Len(t) /\ IsSep(t[i])

\* first index >= k of t that holds no letter
RECURSIVE LettersEnd(_, _)
LettersEnd(t, k) ==
    IF k > Len(t) \/ ~IsLetter(t[k]) THEN k ELSE LettersEnd(t, k + 1)

\* end index of a match of (\d{4})[/-](\d{1,2})[/-](\d{1,2}) starting at i, 0 if none
Pattern1End(t, i) ==
    IF ~(DigitsAt(t, i, 4) /\ SepAt(t, i + 4)) THEN 0
    ELSE LET dstart == IF DigitsAt(t, i + 5, 2) /\ SepAt(t, i + 7) THEN i + 8
                       ELSE IF DigitsAt(t, i + 5, 1) /\ SepAt(t, i + 6) THEN i + 7
                       ELSE 0
         IN  IF dstart = 0 THEN 0
             ELSE IF DigitsAt(t, dstart, 2) THEN dstart + 1
             ELSE IF DigitsAt(t, dstart, 1) THEN dstart
             ELSE 0

\* end index of a match of (\d{4})[/-](\d{1,2}) starting at i, 0 if none
Pattern2End(t, i) ==
    IF ~(DigitsAt(t, i, 4) /\ SepAt(t, i + 4)) THEN 0
    ELSE IF DigitsAt(t, i + 5, 2) THEN i + 6
    ELSE IF DigitsAt(t, i + 5, 1) THEN i + 5
    ELSE 0

\* end index of a match, ignoring case, of
\* (Jan|Feb|...|Dec)[a-z]* (\d{1,2}),? (\d{4}) starting at i, 0 if none
Pattern3End(t, i) ==
    IF ~(i + 2 <= Len(t) /\ IsLetter(t[i])
         /\ <<Lower(t[i]), Lower(t[i + 1]), Lower(t[i + 2])>> \in MonthAbbrSet)
    THEN 0
    ELSE LET sp    == LettersEnd(t, i + 3)
             dlen  == DigitsEnd(t, sp + 1) - (sp + 1)
             after == sp + 1 + dlen
             ystart == IF CharAt(t, after, ",") THEN after + 2 ELSE after + 1
         IN  IF /\ CharAt(t, sp, " ")
                /\ dlen \in {1, 2}
                /\ CharAt(t, ystart - 1, " ")
                /\ DigitsAt(t, ystart, 4)
             THEN ystart + 3
             ELSE 0

PatternEnd(p, t, i) ==
    CASE p = 1 -> Pattern1End(t, i)
      [] p = 2 -> Pattern2End(t, i)
      [] p = 3 -> Pattern3End(t, i)

\* start of the leftmost match of pattern p at or after i, 0 if none
RECURSIVE FirstMatch(_, _, _)
FirstMatch(p, t, i) ==
    IF i > Len(t) THEN 0
    ELSE IF PatternEnd(p, t, i) # 0 THEN i
    ELSE FirstMatch(p, t, i + 1)

\* re.search(pattern, text, re.IGNORECASE).group(0): the leftmost match, <<>> if none
Search(p, t) ==
    LET i == FirstMatch(p, t, 1)
    IN  IF i = 0 THEN <<>> ELSE SubSeq(t, i, PatternEnd(p, t, i))

(***************************************************************************)
(* parser.parse(date_str, fuzzy=True) on the strings the patterns match:   *)
(* digit groups and at most one word.  The result is a date or an error.   *)
(***************************************************************************)
\* the maximal runs of digits of s, in order
RECURSIVE NumTokens(_, _)
NumTokens(s, k) ==
    IF k > Len(s) THEN <<>>
    ELSE IF IsDigit(s[k])
         THEN <<SubSeq(s, k, DigitsEnd(s, k) - 1)>> \o NumTokens(s, DigitsEnd(s, k))
         ELSE NumTokens(s, k + 1)

\* the leading word of s (empty when s starts with a digit)
LeadingWord(s) == LowerStr(SubSeq(s, 1, LettersEnd(s, 1) - 1))

\* the month a word names, 0 if it names none
MonthOfWord(w) ==
    IF \E m \in 1..12 : w = MonthAbbr[m] \/ w = MonthFull[m]
    THEN CHOOSE m \in 1..12 : w = MonthAbbr[m] \/ w = MonthFull[m]
    ELSE IF w = SeptAlias THEN 9 ELSE 0

ParseError == [ok |-> FALSE, t |-> 0]

\* datetime built from the fields found; a missing day is the default's day,
\* lowered to the last day of the month; an impossible date raises
BuildDate(y, m, d, hasDay, n) ==
    IF ~(y >= 1 /\ y <= 9999 /\ m >= 1 /\ m <= 12) THEN ParseError
    ELSE LET day == IF hasDay THEN d ELSE Min(n.d, DaysInMonth(y, m))
         IN  IF ValidDate(y, m, day) THEN [ok |-> TRUE, t |-> Midnight(y, m, day)]
             ELSE ParseError

\* resolution of year, month and day from the numbers found
ParseDate(date_str, n) ==
    LET nums  == NumTokens(date_str, 1)
        month == MonthOfWord(LeadingWord(date_str))
        a     == IntOf(nums[1])
        b     == IntOf(nums[2])
    IN  IF month # 0
        THEN \* month name, day, four-digit year
             BuildDate(b, month, a, TRUE, n)
        ELSE IF Len(nums) = 3
        THEN \* the four-digit token is the year: year, month, day
             BuildDate(a, b, IntOf(nums[3]), TRUE, n)
        ELSE IF a > 31 THEN BuildDate(a, b, 0, FALSE, n)
        ELSE IF b > 31 THEN BuildDate(b, a, 0, FALSE, n)
        ELSE BuildDate(n.y, a, b, TRUE, n)

\* str(x) as formatted by an f-string
StrOf(x) == IF x.k = "none" THEN <<"N", "o", "n", "e">> ELSE x.v

RECURSIVE TryPatterns(_, _, _)
TryPatterns(p, text, n) ==
    IF p > 3 THEN NoDate
    ELSE LET date_str == Search(p, text)
         IN  IF date_str = <<>> THEN TryPatterns(p + 1, text, n)
             ELSE LET parsed == ParseDate(date_str, n)
                  IN  IF parsed.ok THEN SomeDate(parsed.t)
                      ELSE TryPatterns(p + 1, text, n)

_extract_date_from_source(uri, title, n) ==
    TryPatterns(1, StrOf(uri) \o <<" ">> \o StrOf(title), n)

(***************************************************************************)
(* _detect_stale_knowledge                                                 *)
(***************************************************************************)
threshold_date(n) == NowTicks(n) - stale_threshold_days * TicksPerDay

\* chunk.get("uri", ""), chunk.get("title", "")
ChunkGet(chunk, key) ==
    IF ~chunk.has_web THEN PyStr(<<>>)
    ELSE IF key = "uri" THEN chunk.uri ELSE chunk.title

\* the comparison of line 217 with <= for <
ChunkIsStale_Inclusive(chunk, n) ==
    LET date_found == _extract_date_from_source(ChunkGet(chunk, "uri"),
                                                ChunkGet(chunk, "title"), n)
    IN  date_found.found /\ date_found.t <= threshold_date(n)

ChunkIsStale(chunk, n) ==
    LET date_found == _extract_date_from_source(ChunkGet(chunk, "uri"),
                                                ChunkGet(chunk, "title"), n)
    IN  date_found.found /\ date_found.t < threshold_date(n)

\* the for loop: return True at the first stale chunk, False after the last
RECURSIVE StaleLoop(_, _, _)
StaleLoop(chunks, i, n) ==
    IF i > Len(chunks) THEN FALSE
    ELSE IF ChunkIsStale(chunks[i], n) THEN TRUE
    ELSE StaleLoop(chunks, i + 1, n)

_detect_stale_knowledge(md, n) == StaleLoop(md.grounding_chunks, 1, n)

(***************************************************************************)
(* The response object.  An attribute is a slot [k, v]:                    *)
(*   k = "absent"  the object has no such attribute (hasattr is False)     *)
(*   k = "raise"   reading the attribute raises (not an AttributeError)    *)
(*   k = "none"    the attribute is None                                   *)
(*   k = "wrong"   the attribute is a number where an object or a list     *)
(*                 is expected                                             *)
(*   k = "val"     the attribute holds v                                   *)
(* A list element is [k, ...] with k = "none" for a None element.          *)
(***************************************************************************)
Slot(k, v) == [k |-> k, v |-> v]

StrSlot(k) == Slot(k, <<>>)
StrVal(s) == Slot("val", s)

WebObj(uri, title) == [uri |-> uri, title |-> title]
NoWeb == WebObj(StrSlot("absent"), StrSlot("absent"))

Chunk(web) == [k |-> "val", web |-> web]
NoneChunk == [k |-> "none", web |-> Slot("absent", NoWeb)]

SegObj(text) == [text |-> text]
NoSeg == SegObj(StrSlot("absent"))

Support(seg, idx, conf) ==
    [k |-> "val", segment |-> seg, grounding_chunk_indices |-> idx,
     confidence_scores |-> conf]
NoneSupport ==
    [k |-> "none", segment |-> Slot("absent", NoSeg),
     grounding_chunk_indices |-> Slot("absent", <<>>),
     confidence_scores |-> Slot("absent", <<>>)]

SepObj(rc) == [rendered_content |-> rc]
NoSep == SepObj(StrSlot("absent"))

GmObj(sep, chunks, supports) ==
    [search_entry_point |-> sep, grounding_chunks |-> chunks,
     grounding_supports |-> supports]
NoGm == GmObj(Slot("absent", NoSep), Slot("absent", <<>>), Slot("absent", <<>>))

Candidate(gm) == [k |-> "val", grounding_metadata |-> gm]
NoneCandidate == [k |-> "none", grounding_metadata |-> Slot("absent", NoGm)]

Response(text, candidates) == [text |-> text, candidates |-> candidates]

(***************************************************************************)
(* _extract_grounding_metadata                                             *)
(* The body of the try block runs on st = [md, exc]: the dictionary built  *)
(* so far, and whether an exception has been raised (after which nothing   *)
(* more of the body runs).                                                 *)
(***************************************************************************)
Raise(st) == [st EXCEPT !.exc = TRUE]

\* x if hasattr(obj, name) else None, for a string attribute
\* result [exc, v]
StrOrNone(slot) ==
    CASE slot.k = "absent" -> [exc |-> FALSE, v |-> PyNone]
      [] slot.k = "raise"  -> [exc |-> TRUE,  v |-> PyNone]
      [] slot.k = "none"   -> [exc |-> FALSE, v |-> PyNone]
      [] OTHER             -> [exc |-> FALSE, v |-> PyStr(slot.v)]

\* list(x) if hasattr(obj, name) else []
ListOrEmpty(slot) ==
    CASE slot.k = "absent" -> [exc |-> FALSE, v |-> <<>>]
      [] slot.k = "raise"  -> [exc |-> TRUE,  v |-> <<>>]
      [] slot.k = "none"   -> [exc |-> TRUE,  v |-> <<>>]
      [] slot.k = "wrong"  -> [exc |-> TRUE,  v |-> <<>>]
      [] OTHER             -> [exc |-> FALSE, v |-> slot.v]

\* lines 97-101
ExtractQueries(st, gm) ==
    IF st.exc THEN st
    ELSE LET sep == gm.search_entry_point
         IN  CASE sep.k = "absent" -> st
               [] sep.k = "raise"  -> Raise(st)
               [] sep.k \in {"none", "wrong"} -> st
               [] OTHER ->
                    LET rc == sep.v.rendered_content
                    IN  CASE rc.k = "absent" -> st
                          [] rc.k = "raise"  -> Raise(st)
                          [] rc.k = "none"   ->
                               [st EXCEPT !.md.search_queries = Append(@, PyNone)]
                          [] OTHER ->
                               [st EXCEPT !.md.search_queries = Append(@, PyStr(rc.v))]

\* lines 106-112, for one chunk
ExtractChunk(st, chunk) ==
    IF chunk.k = "none" THEN [st EXCEPT !.md.grounding_chunks = Append(@, EmptyChunkData)]
    ELSE LET web == chunk.web
         IN  CASE web.k = "absent" ->
                    [st EXCEPT !.md.grounding_chunks = Append(@, EmptyChunkData)]
               [] web.k = "raise" -> Raise(st)
               [] web.k \in {"none", "wrong"} ->
                    [st EXCEPT !.md.grounding_chunks = Append(@, ChunkData(PyNone, PyNone))]
               [] OTHER ->
                    LET uri   == StrOrNone(web.v.uri)
                        title == StrOrNone(web.v.title)
                    IN  IF uri.exc \/ title.exc THEN Raise(st)
                        ELSE [st EXCEPT !.md.grounding_chunks =
                                            Append(@, ChunkData(uri.v, title.v))]

RECURSIVE ChunkLoop(_, _, _)
ChunkLoop(st, chunks, i) ==
    IF st.exc \/ i > Len(chunks) THEN st
    ELSE ChunkLoop(ExtractChunk(st, chunks[i]), chunks, i + 1)

\* lines 104-112
ExtractChunks(st, gm) ==
    IF st.exc THEN st
    ELSE LET slot == gm.grounding_chunks
         IN  CASE slot.k = "absent" -> st
               [] slot.k \in {"raise", "none", "wrong"} -> Raise(st)
               [] OTHER -> ChunkLoop(st, slot.v, 1)

\* support.segment.text if hasattr(support, 'segment') else None
SegmentText(support) ==
    IF support.k = "none" THEN [exc |-> FALSE, v |-> PyNone]
    ELSE LET seg == support.segment
         IN  CASE seg.k = "absent" -> [exc |-> FALSE, v |-> PyNone]
               [] seg.k \in {"raise", "none", "wrong"} -> [exc |-> TRUE, v |-> PyNone]
               [] OTHER ->
                    CASE seg.v.text.k \in {"absent", "raise"} -> [exc |-> TRUE, v |-> PyNone]
                      [] seg.v.text.k = "none" -> [exc |-> FALSE, v |-> PyNone]
                      [] OTHER -> [exc |-> FALSE, v |-> PyStr(seg.v.text.v)]

\* lines 117-122, for one support
ExtractSupport(st, support) ==
    LET seg  == SegmentText(support)
        idx  == ListOrEmpty(support.grounding_chunk_indices)
        conf == ListOrEmpty(support.confidence_scores)
    IN  IF seg.exc \/ idx.exc \/ conf.exc THEN Raise(st)
        ELSE [st EXCEPT !.md.grounding_supports =
                            Append(@, SupportData(seg.v, idx.v, conf.v))]

RECURSIVE SupportLoop(_, _, _)
SupportLoop(st, supports, i) ==
    IF st.exc \/ i > Len(supports) THEN st
    ELSE SupportLoop(ExtractSupport(st, supports[i]), supports, i + 1)

\* lines 115-122
ExtractSupports(st, gm) ==
    IF st.exc THEN st
    ELSE LET slot == gm.grounding_supports
         IN  CASE slot.k = "absent" -> st
               [] slot.k \in {"raise", "none", "wrong"} -> Raise(st)
               [] OTHER -> SupportLoop(st, slot.v, 1)

\* lines 93-122, for the first candidate
ExtractCandidate(st, candidate) ==
    IF candidate.k = "none" THEN st
    ELSE LET slot == candidate.grounding_metadata
         IN  CASE slot.k = "absent" -> st
               [] slot.k = "raise"  -> Raise(st)
               [] slot.k \in {"none", "wrong"} -> st
               [] OTHER ->
                    ExtractSupports(ExtractChunks(ExtractQueries(st, slot.v), slot.v),
                                    slot.v)

\* the body of the try block, lines 90-122
TryBody(resp) ==
    LET st0  == [md |-> EmptyMetadata, exc |-> FALSE]
        slot == resp.candidates
    IN  CASE slot.k = "absent" -> st0
          [] slot.k = "raise"  -> Raise(st0)
          [] slot.k = "none"   -> st0
          [] slot.k = "wrong"  -> Raise(st0)
          [] OTHER -> IF slot.v = <<>> THEN st0 ELSE ExtractCandidate(st0, slot.v[1])

\* the except clause of line 124 raising again
ExceptHandler_Reraises(st) == [md |-> st.md, exc |-> st.exc, printed |-> st.exc]

\* except Exception as e: print(...): the exception ends here
\* result [md, exc, printed]
ExceptHandler(st) == [md |-> st.md, exc |-> FALSE, printed |-> st.exc]

_extract_grounding_metadata(resp) == ExceptHandler(TryBody(resp))

(***************************************************************************)
(* Inputs                                                                  *)
(***************************************************************************)
MaxParts == 2
MaxSupports == 1

\* sequences of at most n elements of S
SeqsUpTo(S, n) == UNION { [1..k -> S] : k \in 0..n }

ParisUri == <<"h", "t", "t", "p", "s", ":", "/", "/", "e", "n", ".", "w", "i", "k", "i", "p", "e", "d", "i", "a", ".", "o", "r", "g", "/", "w", "i", "k", "i", "/", "P", "a", "r", "i", "s">>
ParisTitle == <<"P", "a", "r", "i", "s">>
ParisSegment == <<"P", "a", "r", "i", "s", " ", "i", "s", " ", "t", "h", "e", " ", "c", "a", "p", "i", "t", "a", "l">>

\* pieces an answer text is written from
TextTokens ==
    { <<"a">>, <<"*">>, <<"-">>, <<"\n">>, <<"1">>, <<"1", ".">>, <<"[">>, <<"]">>,
      <<"[", "1", "]">>, <<"[", "3", "]">> }

\* an answer: some pieces, then filler up to the lengths the checks compare with
PadLens == {0, SubstantiveLen, LongResponseLen}

Texts ==
    { Flatten(parts) \o Repeat("a", pad) :
        parts \in SeqsUpTo(TextTokens, MaxParts), pad \in PadLens }

\* metadata with nc chunks and ns supports, as extracted from a well-formed response
MetadataOf(nc, ns) ==
    [search_queries |-> <<>>,
     grounding_chunks |-> [i \in 1..nc |-> ChunkData(PyStr(ParisUri), PyStr(ParisTitle))],
     grounding_supports |-> [i \in 1..ns |-> SupportData(PyStr(ParisSegment), <<0>>, <<90>>)]]

Today == [y |-> 2026, m |-> 11, d |-> 5, tod |-> 1]

NoWarning == [k |-> "none", v |-> ""]
UnverifiedWarning == [k |-> "str", v |-> "Unverified Data - No grounding supports"]

NoResult ==
    [response |-> <<>>, grounding_metadata |-> EmptyMetadata,
     is_hallucinated |-> FALSE, is_stale |-> FALSE, sources_count |-> 0,
     confidence_score |-> 0, warning |-> NoWarning]

(***************************************************************************)
(* The analysis steps of get_grounded_response, lines 46-55.  Each step    *)
(* applies one function to the locals and moves the request from one       *)
(* position to the next.                                                   *)
(***************************************************************************)
ExtractStep(from, to) ==
    /\ pc = from
    /\ LET r == _extract_grounding_metadata(response)
       IN  /\ grounding_metadata' = r.md
           /\ raised' = r.exc
           /\ diag' = IF r.printed THEN Append(diag, "extract") ELSE diag
           /\ pc' = IF r.exc THEN "raised" ELSE to
    /\ UNCHANGED <<response, now, sources, is_hallucinated, is_stale, confidence_score,
                   logOutcome, waited, traces, result>>

HallucinationStep(from, to) ==
    /\ pc = from
    /\ is_hallucinated' = _detect_hallucination(response, grounding_metadata)
    /\ pc' = to
    /\ UNCHANGED <<response, now, sources, grounding_metadata, is_stale,
                   confidence_score, raised, diag, logOutcome, waited, traces, result>>

StaleStep(from, to) ==
    /\ pc = from
    /\ is_stale' = _detect_stale_knowledge(grounding_metadata, now)
    /\ pc' = to
    /\ UNCHANGED <<response, now, sources, grounding_metadata, is_hallucinated,
                   confidence_score, raised, diag, logOutcome, waited, traces, result>>

ConfidenceStep(from, to) ==
    /\ pc = from
    /\ confidence_score' = _calculate_confidence_score(grounding_metadata)
    /\ pc' = to
    /\ UNCHANGED <<response, now, sources, grounding_metadata, is_hallucinated,
                   is_stale, raised, diag, logOutcome, waited, traces, result>>

\* the variables a specification of one function leaves at rest
Idle ==
    /\ is_hallucinated = FALSE
    /\ is_stale = FALSE
    /\ confidence_score = 0
    /\ raised = FALSE
    /\ diag = <<>>
    /\ logOutcome = "none"
    /\ waited = 0
    /\ traces = <<>>
    /\ result = NoResult

(***************************************************************************)
(* SpecAnalysis: _detect_hallucination and _calculate_confidence_score on  *)
(* every answer text of Texts and every count of chunks and supports       *)
(***************************************************************************)
InitAnalysis ==
    /\ pc = "hallucination"
    /\ \E t \in Texts : response = Response(t, Slot("absent", <<>>))
    /\ \E nc \in 0..(SourceCap + 1), ns \in 0..MaxSupports :
          grounding_metadata = MetadataOf(nc, ns)
    /\ now = Today
    /\ sources = <<>>
    /\ Idle

ApplyDetectHallucination == HallucinationStep("hallucination", "score")

ApplyCalculateConfidence == ConfidenceStep("score", "scored")

NextAnalysis == ApplyDetectHallucination \/ ApplyCalculateConfidence

SpecAnalysis == InitAnalysis /\ [][NextAnalysis]_vars

source_count == Len(grounding_metadata.grounding_chunks)
support_count == Len(grounding_metadata.grounding_supports)

\* a line of the text starts at index i
LineStart(text, i) == i = 1 \/ (i > 1 /\ text[i - 1] = "\n")

\* the text holds a bracketed integer
HasCitation(text) ==
    \E i \in 1..Len(text) :
        /\ text[i] = "["
        /\ \E j \in (i + 2)..Len(text) :
              text[j] = "]" /\ \A k \in (i + 1)..(j - 1) : IsDigit(text[k])

\* list formatting: an asterisk, or a line that begins with digits and ".",
\* or a line that begins with "-"
ListFormatted(text) ==
    \/ \E i \in 1..Len(text) : text[i] = "*"
    \/ \E i \in 1..Len(text) : LineStart(text, i) /\ text[i] = "-"
    \/ \E i \in 1..Len(text) :
          /\ LineStart(text, i) /\ IsDigit(text[i])
          /\ \E j \in (i + 1)..Len(text) :
                text[j] = "." /\ \A k \in i..(j - 1) : IsDigit(text[k])

\* C5 as stated: no citation, one chunk, one support: not hallucinated, score 0.8
C5_ScenarioA_080 ==
    (pc = "scored" /\ ~HasCitation(response.text) /\ source_count = 1 /\ support_count = 1)
        => (is_hallucinated = FALSE /\ confidence_score = 80)

\* C5 amended: no citation, one chunk and one support: the answer is not
\* flagged as hallucinated and the confidence score is 0.84
C5_ScenarioA ==
    (pc = "scored" /\ ~HasCitation(response.text) /\ source_count = 1 /\ support_count = 1)
        => (is_hallucinated = FALSE /\ confidence_score = 84)

C5_Witness ==
    /\ pc = "scored" /\ ~HasCitation(response.text)
    /\ source_count = 1 /\ support_count = 1
    /\ Len(response.text) > SubstantiveLen

\* C6: the score is 0.4 for chunks + 0.4 for supports + min(chunks/5, 1) * 0.2,
\* lies in [0, 1], is 0.0 without chunks and supports, and is 1.0 with at least
\* 5 chunks and at least 1 support
C6_ConfidenceScore ==
    pc = "scored" =>
        /\ 100 * confidence_score =
              (IF source_count > 0 THEN 4000 ELSE 0)
            + (IF support_count > 0 THEN 4000 ELSE 0)
            + (IF source_count >= 5 THEN 2000 ELSE 400 * source_count)
        /\ confidence_score >= 0 /\ confidence_score <= 100
        /\ (source_count = 0 /\ support_count = 0) => confidence_score = 0
        /\ (source_count >= 5 /\ support_count >= 1) => confidence_score = 100

C6_Witness == pc = "scored" /\ source_count > 5 /\ support_count >= 1

\* C7: zero chunks and list formatting (an asterisk, or any line, the first
\* included, beginning with a digit and "." or with "-"): hallucinated
C7_EmptyReceipt ==
    (pc = "score" /\ source_count = 0 /\ ListFormatted(response.text))
        => is_hallucinated = TRUE

\* C10: with at least one chunk, hallucinated exactly when the largest
\* bracketed integer of the text exceeds the number of chunks
C10_GhostOnly ==
    (pc = "score" /\ source_count >= 1) =>
        (is_hallucinated <=>
            \E i \in 1..Len(response.text) :
                /\ response.text[i] = "["
                /\ \E j \in (i + 2)..Len(response.text) :
                      /\ response.text[j] = "]"
                      /\ \A k \in (i + 1)..(j - 1) : IsDigit(response.text[k])
                      /\ IntOf(SubSeq(response.text, i + 1, j - 1)) > source_count)

C10_Witness ==
    /\ pc = "score" /\ source_count >= 1 /\ is_hallucinated
    /\ \E c \in found_citations(response.text) : c <= source_count

\* with a chunk, neither a list, nor a long text, nor missing supports flags the answer
C10_WitnessNoGhost ==
    /\ pc = "score" /\ source_count >= 1 /\ ~is_hallucinated
    /\ has_list(response.text) /\ Len(response.text) > LongResponseLen
    /\ support_count = 0

(***************************************************************************)
(* SpecStale: _detect_stale_knowledge on chunks whose URI or title is      *)
(* written from a known date in a known style                              *)
(***************************************************************************)
MaxStaleChunks == 2

DigitChars == <<"0", "1", "2", "3", "4", "5", "6", "7", "8", "9">>
DigitChar(d) == DigitChars[d + 1]

\* the number n in decimal, zero-padded to w digits
RECURSIVE Dec(_, _)
Dec(n, w) == IF w = 0 THEN <<>> ELSE Dec(n \div 10, w - 1) \o <<DigitChar(n % 10)>>

UriPrefix == <<"h", "t", "t", "p", "s", ":", "/", "/", "e", "x", "a", "m", "p", "l", "e", ".", "c", "o", "m", "/">>
UriSuffix == <<"/", "r", "e", "p", "o", "r", "t">>
ReportTitle == <<"R", "e", "p", "o", "r", "t">>
MonthNames == << <<"J","a","n">>, <<"F","e","b">>, <<"M","a","r">>, <<"A","p","r">>,
                 <<"M","a","y">>, <<"J","u","n">>, <<"J","u","l">>, <<"A","u","g">>,
                 <<"S","e","p">>, <<"O","c","t">>, <<"N","o","v">>, <<"D","e","c">> >>

Source(style, y, m, d) == [style |-> style, y |-> y, m |-> m, d |-> d]

\* the dates around the threshold of Today (2026-05-09), one long past, one to come
SourceKinds ==
    { Source("dash", 2019, 1, 15),  Source("dash", 2026, 5, 8),
      Source("dash", 2026, 5, 9),   Source("dash", 2026, 5, 10),
      Source("dash", 2027, 1, 1),   Source("slash", 2026, 5, 8),
      Source("title", 2019, 1, 15), Source("title", 2026, 5, 9),
      Source("month", 2026, 5, 0),  Source("month", 2026, 6, 0),
      Source("invalid", 2019, 13, 40),
      Source("undated", 0, 0, 0),   Source("noweb", 0, 0, 0),
      Source("nouri", 0, 0, 0) }

\* the chunk_data a source is extracted to
ChunkOf(src) ==
    CASE src.style = "dash" ->
           ChunkData(PyStr(UriPrefix \o Dec(src.y, 4) \o <<"-">> \o Dec(src.m, 2)
                           \o <<"-">> \o Dec(src.d, 2) \o UriSuffix),
                     PyStr(ReportTitle))
      [] src.style = "slash" ->
           ChunkData(PyStr(UriPrefix \o Dec(src.y, 4) \o <<"/">> \o Dec(src.m, 2)
                           \o <<"/">> \o Dec(src.d, 2) \o UriSuffix),
                     PyNone)
      [] src.style = "title" ->
           ChunkData(PyStr(ParisUri),
                     PyStr(MonthNames[src.m] \o <<" ">> \o Dec(src.d, 2) \o <<",", " ">>
                           \o Dec(src.y, 4)))
      [] src.style = "month" ->
           ChunkData(PyStr(UriPrefix \o Dec(src.y, 4) \o <<"/">> \o Dec(src.m, 2)
                           \o UriSuffix),
                     PyStr(ReportTitle))
      [] src.style = "invalid" ->
           ChunkData(PyStr(UriPrefix \o Dec(src.y, 4) \o <<"-">> \o Dec(src.m, 2)
                           \o <<"-">> \o Dec(src.d, 2)),
                     PyStr(ReportTitle))
      [] src.style = "undated" -> ChunkData(PyStr(ParisUri), PyStr(ParisTitle))
      [] src.style = "nouri"   -> ChunkData(PyNone, PyNone)
      [] src.style = "noweb"   -> EmptyChunkData

\* the date a source was written from, as a datetime: a date without a day
\* has the day of the request
DateOf(src, n) ==
    CASE src.style \in {"dash", "slash", "title"} -> SomeDate(Midnight(src.y, src.m, src.d))
      [] src.style = "month" -> SomeDate(Midnight(src.y, src.m, n.d))
      [] OTHER -> NoDate

InitStale ==
    /\ pc = "stale"
    /\ response = Response(<<>>, Slot("absent", <<>>))
    /\ sources \in SeqsUpTo(SourceKinds, MaxStaleChunks)
    /\ grounding_metadata =
          [search_queries |-> <<>>,
           grounding_chunks |-> [i \in 1..Len(sources) |-> ChunkOf(sources[i])],
           grounding_supports |-> <<>>]
    /\ \E tod \in 0..(TicksPerDay - 1) : now = [Today EXCEPT !.tod = tod]
    /\ Idle

ApplyDetectStale == StaleStep("stale", "staled")

SpecStale == InitStale /\ [][ApplyDetectStale]_vars

\* C8: stale exactly when some chunk's date is strictly earlier than now minus
\* 180 days; an undated chunk, a date at the threshold and a date to come do
\* not count, wherever the chunk stands in the list
C8_StaleIffOlder ==
    pc = "staled" =>
        (is_stale <=>
            \E i \in 1..Len(sources) :
                /\ DateOf(sources[i], now).found
                /\ DateOf(sources[i], now).t
                     < (Ordinal(now.y, now.m, now.d) - 180) * TicksPerDay + now.tod)

\* a stale chunk in the last place, behind an undated one
C8_Witness ==
    /\ pc = "staled" /\ is_stale /\ Len(sources) >= 2
    /\ sources[1].style = "undated"
    /\ sources[Len(sources)].style = "dash"

\* a chunk dated exactly now minus 180 days, and nothing older: not stale
C8_WitnessThreshold ==
    /\ pc = "staled" /\ ~is_stale /\ Len(sources) >= 1
    /\ \E i \in 1..Len(sources) :
          /\ DateOf(sources[i], now).found
          /\ DateOf(sources[i], now).t
               = (Ordinal(now.y, now.m, now.d) - 180) * TicksPerDay + now.tod

(***************************************************************************)
(* SpecExtract: _extract_grounding_metadata on partial response trees      *)
(***************************************************************************)
MaxTreeChunks == 2
MaxTreeSupports == 2

GoodWeb == Slot("val", WebObj(StrVal(ParisUri), StrVal(ParisTitle)))

TreeChunks ==
    { Chunk(GoodWeb),
      Chunk(Slot("none", NoWeb)),
      Chunk(Slot("raise", NoWeb)),
      Chunk(Slot("val", WebObj(StrSlot("absent"), StrSlot("none")))),
      NoneChunk }

GoodSegment == Slot("val", SegObj(StrVal(ParisSegment)))

TreeSupports ==
    { Support(GoodSegment, Slot("val", <<0>>), Slot("val", <<90>>)),
      Support(Slot("absent", NoSeg), Slot("val", <<0>>), Slot("absent", <<>>)),
      Support(Slot("none", NoSeg), Slot("val", <<0>>), Slot("val", <<90>>)),
      Support(GoodSegment, Slot("none", <<>>), Slot("val", <<90>>)),
      NoneSupport }

\* a list attribute: absent, raising, None, a number, or a list
ListSlots(S, n) ==
    { Slot(k, <<>>) : k \in {"absent", "raise", "none", "wrong"} }
        \cup { Slot("val", l) : l \in SeqsUpTo(S, n) }

TreeSeps ==
    { Slot("absent", NoSep), Slot("none", NoSep), Slot("raise", NoSep),
      Slot("val", SepObj(StrSlot("none"))),
      Slot("val", SepObj(StrVal(ParisTitle))) }

TreeGms ==
    { GmObj(sep, chunks, supports) :
        sep \in TreeSeps,
        chunks \in ListSlots(TreeChunks, MaxTreeChunks),
        supports \in ListSlots(TreeSupports, MaxTreeSupports) }

TreeCandidates ==
    { NoneCandidate }
        \cup { Candidate(Slot(k, NoGm)) : k \in {"absent", "raise", "none", "wrong"} }
        \cup { Candidate(Slot("val", gm)) : gm \in TreeGms }

TreeCandidateLists ==
    { Slot(k, <<>>) : k \in {"absent", "raise", "none", "wrong", "val"} }
        \cup { Slot("val", <<c>>) : c \in TreeCandidates }

InitExtract ==
    /\ pc = "extract"
    /\ \E c \in TreeCandidateLists : response = Response(ParisSegment, c)
    /\ grounding_metadata = EmptyMetadata
    /\ now = Today
    /\ sources = <<>>
    /\ Idle

ApplyExtractMetadata == ExtractStep("extract", "extracted")

SpecExtract == InitExtract /\ [][ApplyExtractMetadata]_vars

\* the grounding tree of the response, when it has one
HasGm ==
    /\ response.candidates.k = "val" /\ response.candidates.v # <<>>
    /\ response.candidates.v[1].k = "val"
    /\ response.candidates.v[1].grounding_metadata.k = "val"
Gm == response.candidates.v[1].grounding_metadata.v

\* C3: the extraction returns for every partial tree, and the record returned
\* has its three fields, each a sequence
C3_ExtractTotal ==
    pc # "extract" =>
        /\ pc = "extracted" /\ ~raised
        /\ DOMAIN grounding_metadata
             = {"search_queries", "grounding_chunks", "grounding_supports"}
        /\ \A f \in DOMAIN grounding_metadata :
              DOMAIN grounding_metadata[f] = 1..Len(grounding_metadata[f])

\* a tree whose reading raised, with the chunks read before it kept
C3_Witness ==
    /\ pc = "extracted" /\ diag # <<>>
    /\ grounding_metadata.grounding_chunks # <<>>
    /\ grounding_metadata.grounding_supports = <<>>

\* C4: a missing (absent or None) chunk list does not stop the extraction of the
\* supports: each support of the input is in the output
C4_SiblingBranch ==
    (/\ pc = "extracted" /\ HasGm
     /\ Gm.grounding_chunks.k \in {"absent", "none"}
     /\ Gm.search_entry_point.k # "raise"
     /\ Gm.grounding_supports.k = "val"
     /\ \A i \in 1..Len(Gm.grounding_supports.v) :
           Gm.grounding_supports.v[i] = Support(GoodSegment, Slot("val", <<0>>), Slot("val", <<90>>)))
        => Len(grounding_metadata.grounding_supports) = Len(Gm.grounding_supports.v)

(***************************************************************************)
(* Spec: get_grounded_response from the call of generate_content to the    *)
(* return, with the POST of the trace to /log-trace                        *)
(***************************************************************************)
MaxOrchChunks == 2
\* httpx.AsyncClient(timeout=30.0), in seconds
LogTimeout == 30
\* the seconds between two looks at the clock while the POST is pending
TickSeconds == 10

DatedWeb ==
    Slot("val", WebObj(StrVal(UriPrefix \o Dec(2019, 4) \o <<"-">> \o Dec(1, 2)
                              \o <<"-">> \o Dec(15, 2) \o UriSuffix),
                       StrVal(ReportTitle)))

GoodSupport == Support(GoodSegment, Slot("val", <<0>>), Slot("val", <<90>>))

OrchGms ==
    { GmObj(sep, chunks, supports) :
        sep \in { Slot("absent", NoSep), Slot("val", SepObj(StrVal(ParisTitle))) },
        chunks \in { Slot("none", <<>>) }
                     \cup { Slot("val", l) :
                              l \in SeqsUpTo({Chunk(GoodWeb), Chunk(DatedWeb)}, MaxOrchChunks) },
        supports \in { Slot("none", <<>>) }
                       \cup { Slot("val", [i \in 1..n |-> GoodSupport]) : n \in 0..MaxSupports } }

OrchTexts ==
    { head \o Repeat("a", pad) :
        head \in { <<>>, <<"*">>, <<"[", "1", "]">>, <<"[", "3", "]">> },
        pad \in PadLens }

OrchResponses ==
    { Response(t, c) :
        t \in OrchTexts,
        c \in { Slot("absent", <<>>), Slot("none", <<>>) }
                \cup { Slot("val", <<Candidate(Slot("val", gm))>>) : gm \in OrchGms } }

Init ==
    /\ pc = "idle"
    /\ response = Response(<<>>, Slot("absent", <<>>))
    /\ grounding_metadata = EmptyMetadata
    /\ now = Today
    /\ sources = <<>>
    /\ Idle

\* lines 34-43: the model answers
GenerateContent ==
    /\ pc = "idle"
    /\ response' \in OrchResponses
    /\ pc' = "extract"
    /\ UNCHANGED <<now, sources, grounding_metadata, is_hallucinated, is_stale,
                   confidence_score, raised, diag, logOutcome, waited, traces, result>>

\* lines 39-43: the call of the model raises, and nothing catches it
GenerateContentFails ==
    /\ pc = "idle"
    /\ raised' = TRUE
    /\ pc' = "raised"
    /\ UNCHANGED <<response, now, sources, grounding_metadata, is_hallucinated,
                   is_stale, confidence_score, diag, logOutcome, waited, traces, result>>

ExtractMetadata == ExtractStep("extract", "hallucination")

DetectHallucination == HallucinationStep("hallucination", "stale")

DetectStale == StaleStep("stale", "score")

CalculateConfidence == ConfidenceStep("score", "log")

\* lines 58-64
Trace ==
    [session_id |-> "default", response_text |-> response.text,
     grounding_metadata |-> grounding_metadata, is_hallucinated |-> is_hallucinated]

\* lines 58-67 and 252-259: the trace is built and posted, and the coroutine
\* is suspended in await client.post(...)
PostTrace ==
    /\ pc = "log"
    /\ pc' = "awaiting"
    /\ waited' = 0
    /\ UNCHANGED <<response, now, sources, grounding_metadata, is_hallucinated,
                   is_stale, confidence_score, raised, diag, logOutcome, traces, result>>

\* time passes and the endpoint has not answered
LogWait ==
    /\ pc = "awaiting"
    /\ waited < LogTimeout
    /\ waited' = Min(waited + TickSeconds, LogTimeout)
    /\ UNCHANGED <<pc, response, now, sources, grounding_metadata, is_hallucinated,
                   is_stale, confidence_score, raised, diag, logOutcome, traces, result>>

\* _log_trace without the except clause of line 261
LogExceptHandler_Propagates(outcome) ==
    IF outcome = "recorded" THEN [exc |-> FALSE, printed |-> FALSE]
    ELSE [exc |-> TRUE, printed |-> FALSE]

\* lines 252-262: what the try block of _log_trace does with the outcome of the
\* POST: result [exc, printed]
LogExceptHandler(outcome) ==
    IF outcome = "recorded" THEN [exc |-> FALSE, printed |-> FALSE]
    ELSE [exc |-> FALSE, printed |-> TRUE]

LogEnds(outcome) ==
    LET r == LogExceptHandler(outcome)
    IN  /\ logOutcome' = outcome
        /\ raised' = r.exc
        /\ diag' = IF r.printed THEN Append(diag, "log") ELSE diag
        /\ pc' = IF r.exc THEN "raised" ELSE "return"

\* src/main.py log_trace: the row is added and committed, the POST answers 200
LogRecorded ==
    /\ pc = "awaiting"
    /\ traces' = Append(traces, Trace)
    /\ LogEnds("recorded")
    /\ UNCHANGED <<response, now, sources, grounding_metadata, is_hallucinated,
                   is_stale, confidence_score, waited, result>>

\* the endpoint answers with an error status: raise_for_status raises
LogRejected ==
    /\ pc = "awaiting"
    /\ LogEnds("rejected")
    /\ UNCHANGED <<response, now, sources, grounding_metadata, is_hallucinated,
                   is_stale, confidence_score, waited, traces, result>>

\* the endpoint cannot be reached: client.post raises
LogUnreachable ==
    /\ pc = "awaiting"
    /\ LogEnds("unreachable")
    /\ UNCHANGED <<response, now, sources, grounding_metadata, is_hallucinated,
                   is_stale, confidence_score, waited, traces, result>>

\* the endpoint hangs: client.post raises after timeout=30.0
LogTimedOut ==
    /\ pc = "awaiting"
    /\ waited = LogTimeout
    /\ LogEnds("timeout")
    /\ UNCHANGED <<response, now, sources, grounding_metadata, is_hallucinated,
                   is_stale, confidence_score, waited, traces, result>>

\* line 76 without "and not is_hallucinated"
WarningFor_IgnoresFlag(md, hallucinated) ==
    IF md.grounding_supports = <<>> THEN UnverifiedWarning ELSE NoWarning

\* line 76
WarningFor(md, hallucinated) ==
    IF md.grounding_supports = <<>> /\ ~hallucinated THEN UnverifiedWarning ELSE NoWarning

\* lines 69-77
ReturnValue ==
    [response |-> response.text,
     grounding_metadata |-> grounding_metadata,
     is_hallucinated |-> is_hallucinated,
     is_stale |-> is_stale,
     sources_count |-> Len(grounding_metadata.grounding_chunks),
     confidence_score |-> confidence_score,
     warning |-> WarningFor(grounding_metadata, is_hallucinated)]

Return ==
    /\ pc = "return"
    /\ result' = ReturnValue
    /\ pc' = "returned"
    /\ UNCHANGED <<response, now, sources, grounding_metadata, is_hallucinated,
                   is_stale, confidence_score, raised, diag, logOutcome, waited, traces>>

Next ==
    \/ GenerateContent
    \/ GenerateContentFails
    \/ ExtractMetadata
    \/ DetectHallucination
    \/ DetectStale
    \/ CalculateConfidence
    \/ PostTrace
    \/ LogWait
    \/ LogRecorded
    \/ LogRejected
    \/ LogUnreachable
    \/ LogTimedOut
    \/ Return

Spec == Init /\ [][Next]_vars

\* C1: the result is delivered without waiting for the log call: no time
\* spent waiting for the log endpoint precedes the delivery
C1_NonBlocking == pc = "returned" => waited = 0

\* what get_grounded_response returns for a response when the trace is recorded
ResultWhenLogged(resp, n) ==
    LET md == _extract_grounding_metadata(resp).md
        h  == _detect_hallucination(resp, md)
    IN  [response |-> resp.text,
         grounding_metadata |-> md,
         is_hallucinated |-> h,
         is_stale |-> _detect_stale_knowledge(md, n),
         sources_count |-> Len(md.grounding_chunks),
         confidence_score |-> _calculate_confidence_score(md),
         warning |-> IF md.grounding_supports = <<>> /\ ~h
                     THEN UnverifiedWarning ELSE NoWarning]

\* C2: whether the log endpoint records the trace, rejects it or cannot be
\* reached, the request returns, and it returns what it returns when the
\* trace is recorded
C2_LogFailureHarmless ==
    logOutcome # "none" =>
        /\ ~raised /\ pc \in {"return", "returned"}
        /\ pc = "returned" => result = ResultWhenLogged(response, now)

C2_Witness ==
    /\ pc = "returned" /\ logOutcome \in {"rejected", "unreachable"}
    /\ traces = <<>> /\ result.sources_count > 0

\* C9: the warning is the fixed string exactly when there are no supports and
\* the answer is not flagged; a flagged answer carries no warning
C9_Warning ==
    pc = "returned" =>
        /\ result.warning \in {NoWarning, UnverifiedWarning}
        /\ result.warning = UnverifiedWarning
             <=> (result.grounding_metadata.grounding_supports = <<>>
                  /\ ~result.is_hallucinated)
        /\ ~(result.is_hallucinated /\ result.warning # NoWarning)

\* a flagged answer without supports, returned without a warning
C9_Witness ==
    /\ pc = "returned" /\ result.is_hallucinated
    /\ result.grounding_metadata.grounding_supports = <<>>
    /\ result.warning = NoWarning

====
